---- MODULE Spec2Model ----
(***************************************************************************)
(* The connection-probe engine of firebreak: one probe of                  *)
(* OsNsConnPath::connect (src/conn/os.rs) with the namespace-scoped worker *)
(* of OsNs::scoped (src/os.rs), over a small model of the kernel's         *)
(* sockets.  The coordinator is one cooperative task: a poll runs the      *)
(* client, then the server (try_join!), and the timer of                   *)
(* connect_with_timeout is looked at only when that poll ends Pending.     *)
(***************************************************************************)
EXTENDS Integers, Sequences, FiniteSets, TLC

\* ---------------------------------------------------------------- bounds
\* The cookies a client may draw are 0, CookieStep, ..., MaxCookie * CookieStep.
MaxCookie == 1
\* How many connections / datagrams a sender other than the probe's client
\* may direct at the server socket (SpecOpen only).
MaxForeign == 1
\* How many file descriptors the process can have open beside stdio.
MaxFd == 3
\* How many network namespaces OsNs::new_net may create in a run.
MaxNs == 3
\* The width of an address, in bits, in place of the 32 of IPv4 and the 128
\* of IPv6.
V4Bits == 3
V6Bits == 4
\* How many times the loop of random_peer_addr_with_net is followed when it
\* draws the interface's own address.
MaxTries == 2

\* ------------------------------------------------------ program constants
\* A cookie is a u128: 16 bytes on the wire (to_be_bytes, write_u128).
CookieLen == 16
\* One byte.
ByteBase == 256

CookieStep == ByteBase + 2
Cookies == {k * CookieStep : k \in 0..MaxCookie}

\* ------------------------------------------------------------- addresses
Families == {"v4", "v6"}
Addr(f, h) == [fam |-> f, host |-> h]
NoAddr == Addr("none", "none")
\* The address of a sender that is not the probe's client.
ForeignAddr(f) == Addr(f, "foreign")

\* The addresses configured in each network namespace: `lo` is up in every
\* namespace the harness makes; set_addr flushes a device before it adds the
\* one address, so a namespace has at most one address beside loopback.
NsHosts(ns) ==
    CASE ns = "host_ns" -> {"lo", "if"}
      [] ns = "peer_ns" -> {"lo", "peer"}
      [] ns = "peer2_ns" -> {"lo", "peer2"}
      [] OTHER -> {"lo"}

\* The paths the harness builds: the loopback path of the conn tests, and
\* input_path, output_path and forward_path of OsHost.
PathKinds == {"loopback", "input", "output", "forward"}
MkPath(kind, f) ==
    CASE kind = "loopback" ->
           [source |-> "test_ns", source_addr |-> Addr(f, "lo"),
            target |-> "test_ns", target_addr |-> Addr(f, "lo")]
      [] kind = "input" ->
           [source |-> "peer_ns", source_addr |-> Addr(f, "peer"),
            target |-> "host_ns", target_addr |-> Addr(f, "if")]
      [] kind = "output" ->
           [source |-> "host_ns", source_addr |-> Addr(f, "if"),
            target |-> "peer_ns", target_addr |-> Addr(f, "peer")]
      [] OTHER ->
           [source |-> "peer_ns", source_addr |-> Addr(f, "peer"),
            target |-> "peer2_ns", target_addr |-> Addr(f, "peer2")]
Paths == {MkPath(k, f) : k \in PathKinds, f \in Families}

\* ------------------------------------------------------ kernel semantics
\* bind(2): the address must be of the socket's family and configured in the
\* namespace the socket was created in.
CanBind(s, a) == s.fam = a.fam /\ a.host \in NsHosts(s.ns)
\* connect(2) of a socket to an address of another family fails at once.
CanConnect(s, a) == s.fam = a.fam
\* The source address the kernel gives a socket that connects to `dst`: its
\* bound address if it has one; the destination itself when that is local;
\* else the address of the namespace's interface.
SrcSelect(s, dst) ==
    IF s.addr # NoAddr THEN s.addr
    ELSE IF dst.host \in NsHosts(s.ns) THEN dst
    ELSE IF NsHosts(s.ns) = {"lo"} THEN NoAddr
    ELSE Addr(dst.fam, CHOOSE h \in NsHosts(s.ns) \ {"lo"} : TRUE)

\* -------------------------------------------------------------- encoding
\* u128::to_be_bytes / write_u128: most significant byte first.
RECURSIVE BeBytes(_, _)
BeBytes(c, n) ==
    IF n = 0 THEN << >> ELSE Append(BeBytes(c \div ByteBase, n - 1), c % ByteBase)
ToBeBytes(c) == BeBytes(c, CookieLen)
\* u128::from_be_bytes / read_u128.
RECURSIVE FromBeBytes(_)
FromBeBytes(b) ==
    IF b = << >> THEN 0
    ELSE FromBeBytes(SubSeq(b, 1, Len(b) - 1)) * ByteBase + b[Len(b)]

Min(a, b) == IF a < b THEN a ELSE b

\* ----------------------------------------------------------------- values
\* ConnResult / io::Error / panic, as the outcome of one call of connect.
NoResult == [kind |-> "None", source_addr |-> NoAddr, errno |-> "none"]
ResOk(a) == [kind |-> "Ok", source_addr |-> a, errno |-> "none"]
ResRefused == [kind |-> "Refused", source_addr |-> NoAddr, errno |-> "none"]
ResUnreachable == [kind |-> "Unreachable", source_addr |-> NoAddr, errno |-> "none"]
ResErr(e) == [kind |-> "Err", source_addr |-> NoAddr, errno |-> e]
ResPanic(m) == [kind |-> "Panic", source_addr |-> NoAddr, errno |-> m]

\* ClientStatus, or the client's io::Error.
NoClient == [kind |-> "None", cookie |-> -1, errno |-> "none"]
SentCookie(c) == [kind |-> "SentCookie", cookie |-> c, errno |-> "none"]
ClientRefused == [kind |-> "Refused", cookie |-> -1, errno |-> "none"]
ClientErr(e) == [kind |-> "Err", cookie |-> -1, errno |-> e]

\* ServerStatus.
NoServer == [kind |-> "None", cookie |-> -1, peer_addr |-> NoAddr]
ReceivedCookie(c, a) == [kind |-> "ReceivedCookie", cookie |-> c, peer_addr |-> a]
ServerAborted == [kind |-> "Aborted", cookie |-> -1, peer_addr |-> NoAddr]

\* A socket: its state, the namespace it was created in, its family, its
\* local address and its pending error (SO_ERROR).
NoSock == [st |-> "none", ns |-> "none", fam |-> "none", addr |-> NoAddr, err |-> "none"]
\* The worker thread of one Ns::scoped call.
NoWorker == [st |-> "none", ns |-> "none", target |-> "none", who |-> "none",
             ret |-> "none", sock |-> NoSock, runs |-> 0, setns |-> "none"]
\* A connection waiting in the listener's accept queue, or accepted.
NoConn == [id |-> "none", peer |-> NoAddr]
\* A datagram.
NoDgram == [peer |-> NoAddr, bytes |-> << >>]
\* Another probe: how far it is, and whether its target (namespace, address,
\* protocol and port) is this probe's target.
NoOther == [st |-> "none", same |-> FALSE]

\* ------------------------------------------------------------------ OsNs
\* File descriptor numbers, and what a number refers to: nothing, a network
\* namespace, or another open file.
Fds == 1..MaxFd
FdFree == [kind |-> "free", ns |-> -1]
FdFile == [kind |-> "file", ns |-> -1]
FdNs(k) == [kind |-> "ns", ns |-> k]
\* fd_path: format!("/proc/{}/fd/{}", std::process::id(), fd.as_raw_fd()).
FdPath(fd) == [pid |-> "self", fd |-> fd]
\* An OsNs value; `made` is the namespace it was created for.
OsNs(fd, k) == [fd |-> fd, fd_path |-> FdPath(fd), made |-> k]
\* The thread of new_net: not running.
NoNewNet == [st |-> "none", ns |-> -1, made |-> -1, fd |-> -1, err |-> "none"]
NoEntered == [fd |-> -1, made |-> -1, ns |-> -1, err |-> "none"]

\* ------------------------------------------------------------- IpNet
\* An address with its prefix length.
IpNet(f, a, l) == [fam |-> f, addr |-> a, len |-> l]
NoNet == IpNet("none", -1, -1)
AddrBits(f) == IF f = "v4" THEN V4Bits ELSE V6Bits
Pow2(n) == 2 ^ n
\* The addresses with prefix an interface can be given.
IpNets ==
    {IpNet(f, a, l) : f \in {"v4"}, a \in 0..(Pow2(V4Bits) - 1), l \in 0..V4Bits}
        \cup {IpNet(f, a, l) : f \in {"v6"}, a \in 0..(Pow2(V6Bits) - 1), l \in 0..V6Bits}
\* & and | on words of n bits.
RECURSIVE BitAnd(_, _, _)
BitAnd(a, b, n) ==
    IF n = 0 THEN 0
    ELSE 2 * BitAnd(a \div 2, b \div 2, n - 1) + (IF a % 2 = 1 /\ b % 2 = 1 THEN 1 ELSE 0)
RECURSIVE BitOr(_, _, _)
BitOr(a, b, n) ==
    IF n = 0 THEN 0
    ELSE 2 * BitOr(a \div 2, b \div 2, n - 1) + (IF a % 2 = 1 \/ b % 2 = 1 THEN 1 ELSE 0)
\* ipnet: hostmask(), netmask() and network() of an address with prefix.
HostMask(x) == Pow2(AddrBits(x.fam) - x.len) - 1
NetMask(x) == Pow2(AddrBits(x.fam)) - 1 - HostMask(x)
Network(x) == BitAnd(x.addr, NetMask(x), AddrBits(x.fam))
\* random::<u32>() / random::<u128>().
Draws(f) == 0..(Pow2(AddrBits(f)) - 1)
\* random_peer_addr_with_net: the value `ret` of one turn of the loop, for
\* the draw r.
PeerCandidate(x, r) ==
    IpNet(x.fam,
          BitOr(Network(x), BitAnd(r, HostMask(x), AddrBits(x.fam)), AddrBits(x.fam)),
          x.len)
\* (mutant) the first candidate is returned.
PeerAccepted_Any(x, ret) == TRUE
\* random_peer_addr_with_net: `if ret != addr_with_net { return ret; }`.
PeerAccepted(x, ret) == ret # x

VARIABLES
    proto,      \* "Tcp" or "Udp": the ConnSpec
    path,       \* the OsNsConnPath
    net,        \* what the network does with the probe's packet
    timed,      \* called through connect_with_timeout, or connect alone
    co,         \* the coordinator: "start", "binding", "running", "done"
    bs,         \* the stage of bind_server
    turn,       \* inside a poll of try_join!: whose turn; or "parked"
    result,     \* what connect returned
    aborted,    \* the AbortHandle's flag
    deadline,   \* the 2 s have passed
    wk,         \* the worker thread of the Ns::scoped call in progress
    callerNs,   \* the namespace of the calling thread
    cl,         \* the client task's position
    clRes,      \* the client task's output
    cookie,     \* the cookie the client drew
    sv,         \* the server task's position
    svRes,      \* the server task's output
    ssock,      \* the server socket
    csock,      \* the client socket
    stream,     \* the connection the server accepted
    acceptq,    \* the listener's accept queue
    wire,       \* the bytes written on each connection
    inflight,   \* the client's datagram, on its way
    rcvq,       \* the server socket's receive queue
    icmp,       \* the rejection of the client's datagram, on its way back
    foreign,    \* how many times another sender has reached the server socket
    fault,      \* the kernel has failed a call for a reason of its own
    refusedSeen,\* the client's transport reported ECONNREFUSED
    timedOut,   \* the timer ended the probe
    bindErr,    \* the error bind_server failed with, or "none"
    joined,     \* the worker of the last Ns::scoped call, as it was when joined
    recvLen,    \* the length of the datagram the UDP server took, or -1
    other,      \* another probe, run beside this one (SpecTwo only)
    otherPkt,   \* the datagram of the other probe's client, on its way
    fds,        \* the process's file descriptors: what each number refers to
    handles,    \* the live OsNs values
    nn,         \* the worker thread of the OsNs::new_net call in progress
    nsNext,     \* how many network namespaces have been created
    mainNs,     \* the namespace of the thread that calls new_net (0: initial)
    entered,    \* the last setns through a handle: the handle and where it led
    pin,        \* random_peer_addr_with_net: its argument, the interface's address
    ppc,        \* where the path constructor is: "idle", "loop", "returned", "set", "panic"
    pret,       \* what random_peer_addr_with_net returned
    ptries,     \* how many turns of its loop have drawn a rejected candidate
    peerIf      \* the address given to the peer end of the interface

cfgVars == <<proto, path, net, timed>>
coVars == <<co, bs, turn, result, aborted>>
thrVars == <<wk, callerNs>>
clVars == <<cl, clRes, cookie>>
svVars == <<sv, svRes>>
sockVars == <<ssock, csock, stream>>
netVars == <<acceptq, wire, inflight, rcvq, icmp, foreign>>
histVars == <<fault, refusedSeen, timedOut, bindErr, joined, recvLen>>
peerVars == <<other, otherPkt>>
nsVars == <<fds, handles, nn, nsNext, mainNs, entered>>
pickVars == <<pin, ppc, pret, ptries, peerIf>>
harnessVars == <<nsVars, pickVars>>
vars == <<cfgVars, coVars, deadline, thrVars, clVars, svVars, sockVars, netVars, histVars,
          peerVars, harnessVars>>

ConnIds == {"c", "f"}

Init ==
    /\ proto \in {"Tcp", "Udp"}
    /\ path \in Paths
    /\ net \in {"accept", "drop", "reject"}
    /\ timed \in BOOLEAN
    /\ co = "start" /\ bs = "none" /\ turn = "none"
    /\ result = NoResult
    /\ aborted = FALSE /\ deadline = FALSE
    /\ wk = NoWorker /\ callerNs = "init_ns"
    /\ cl = "new" /\ clRes = NoClient /\ cookie = -1
    /\ sv = "new" /\ svRes = NoServer
    /\ ssock = NoSock /\ csock = NoSock /\ stream = NoConn
    /\ acceptq = << >> /\ wire = [i \in ConnIds |-> << >>]
    /\ inflight = NoDgram /\ rcvq = << >> /\ icmp = "none" /\ foreign = 0
    /\ fault = FALSE /\ refusedSeen = FALSE /\ timedOut = FALSE /\ bindErr = "none"
    /\ joined = NoWorker /\ recvLen = -1
    /\ other = NoOther /\ otherPkt = NoDgram
    /\ fds = [n \in Fds |-> FdFree] /\ handles = {} /\ nn = NoNewNet /\ nsNext = 0
    /\ mainNs = 0 /\ entered = NoEntered
    /\ pin = NoNet /\ ppc = "idle" /\ pret = NoNet /\ ptries = 0 /\ peerIf = NoNet

\* ------------------------------------------------------------ Ns::scoped
\* spawn_scoped: a fresh thread, which starts in its creator's namespace and
\* is to enter `ns`.
SpawnScoped(ns, who) ==
    [st |-> "spawned", ns |-> callerNs, target |-> ns, who |-> who,
     ret |-> "none", sock |-> NoSock, runs |-> 0, setns |-> "none"]

\* The errors setns can leave in errno.
SetnsErrnos == {"EPERM", "EINVAL"}
\* (mutant) the result of setns is not looked at.
SetnsFailed_Never(res) == FALSE
\* spawn_scoped: `if res == -1`, with res the errno here ("Ok" for 0).
SetnsFailed(res) == res # "Ok"

\* (mutant) setns is called on the calling thread.
SetnsThread_Caller == "caller"
\* The thread that calls setns: the closure handed to s.spawn, so the worker.
SetnsThread == "worker"

\* The worker calls setns; -1 makes it return the error without running f.
WorkerSetns ==
    /\ wk.st = "spawned"
    /\ \E res \in {"Ok"} \cup SetnsErrnos :
         /\ fault' = (fault \/ res # "Ok")
         /\ IF SetnsFailed(res)
            THEN /\ wk' = [wk EXCEPT !.st = "exited", !.ret = res, !.setns = res]
                 /\ UNCHANGED callerNs
            ELSE /\ wk' = [wk EXCEPT !.st = "entered", !.setns = res,
                                     !.ns = IF res = "Ok" /\ SetnsThread = "worker"
                                            THEN wk.target ELSE @]
                 /\ callerNs' = IF res = "Ok" /\ SetnsThread = "caller"
                                THEN wk.target ELSE callerNs
    /\ UNCHANGED <<cfgVars, coVars, deadline, clVars, svVars, sockVars,
                   netVars, refusedSeen, timedOut, bindErr,
                   joined, recvLen, peerVars, harnessVars>>

\* (mutant) the socket is always made with new_v4.
SocketFamily_V4(a) == "v4"
\* TcpSocket::new_v4 / new_v6, chosen by the family of the target address.
SocketFamily(a) == a.fam
TcpSocketNew(ns, a) ==
    [ret |-> "Ok",
     sock |-> [st |-> "open", ns |-> ns, fam |-> SocketFamily(a), addr |-> NoAddr,
               err |-> "none"]]
\* (mutant) the port is looked up without the namespace and address of the
\* target: the server sockets of all probes share one table.
PortTaken_AnyTarget == other.st \in {"bound", "sent"}
\* The target's port is held by the server socket of another probe: a socket
\* made inside the target namespace and bound to the target address and port.
PortTaken == other.same /\ other.st \in {"bound", "sent"}
\* What bind returns: `port` is "fixed" for the server's port and "any" for
\* port 0.
BindErrno(s, a, port) ==
    IF ~CanBind(s, a) THEN "EADDRNOTAVAIL"
    ELSE IF port = "fixed" /\ PortTaken THEN "EADDRINUSE"
    ELSE "Ok"
\* std::net::UdpSocket::bind((addr, port)): socket and bind in one.
StdUdpBind(ns, a, port) ==
    LET s == [st |-> "open", ns |-> ns, fam |-> a.fam, addr |-> NoAddr, err |-> "none"]
    IN  IF BindErrno(s, a, port) = "Ok"
        THEN [ret |-> "Ok", sock |-> [s EXCEPT !.st = "bound", !.addr = a]]
        ELSE [ret |-> BindErrno(s, a, port), sock |-> NoSock]
\* The address the UDP client binds its socket to.
ClientBindAddr == path.source_addr
\* The closure each call site hands to scoped, run in namespace `ns`.
ScopedClosure(who, ns) ==
    CASE who = "bind" /\ proto = "Tcp" -> TcpSocketNew(ns, path.target_addr)
      [] who = "bind" /\ proto = "Udp" -> StdUdpBind(ns, path.target_addr, "fixed")
      [] who = "client" /\ proto = "Tcp" -> TcpSocketNew(ns, path.target_addr)
      [] OTHER -> StdUdpBind(ns, ClientBindAddr, "any")

\* The worker, inside the namespace, runs f; the kernel may fail the call.
WorkerRun ==
    /\ wk.st = "entered"
    /\ \E ok \in BOOLEAN :
         IF ok
         THEN /\ wk' = [wk EXCEPT !.st = "exited",
                                  !.ret = ScopedClosure(wk.who, wk.ns).ret,
                                  !.sock = ScopedClosure(wk.who, wk.ns).sock,
                                  !.runs = @ + 1]
              /\ UNCHANGED fault
         ELSE /\ wk' = [wk EXCEPT !.st = "exited", !.ret = "EMFILE", !.runs = @ + 1]
              /\ fault' = TRUE
    /\ UNCHANGED <<cfgVars, coVars, deadline, callerNs, clVars, svVars, sockVars,
                   netVars, refusedSeen, timedOut, bindErr,
                   joined, recvLen, peerVars, harnessVars>>

\* The worker blocks in a call that does not return; scoped joins it, so the
\* caller stays blocked with it.
WorkerHang ==
    /\ wk.st \in {"spawned", "entered"}
    /\ wk' = [wk EXCEPT !.st = "hung"]
    /\ UNCHANGED <<cfgVars, coVars, deadline, callerNs, clVars, svVars, sockVars,
                   netVars, histVars,
                   peerVars, harnessVars>>

\* ------------------------------------------------------------- returning
\* (mutant) the socket is leaked instead of closed.
Drop_Leak(s) == s
\* A socket is closed when the value that owns it is dropped.
Drop(s) == IF s.st = "none" THEN s ELSE [s EXCEPT !.st = "closed"]

\* connect returns r (or unwinds): the futures it owns are dropped, and the
\* sockets with them.
Exit(r) ==
    /\ co' = "done"
    /\ turn' = "none"
    /\ result' = r
    /\ ssock' = Drop(ssock)
    /\ csock' = Drop(csock)

\* ----------------------------------------------------------- bind_server
\* connect_with_timeout arms the timer and polls connect, which starts with
\* bind_server: its scoped call spawns the worker for the target namespace.
Call ==
    /\ co = "start"
    /\ co' = "binding"
    /\ bs' = "scoped"
    /\ wk' = SpawnScoped(path.target, "bind")
    /\ UNCHANGED <<cfgVars, turn, result, aborted, deadline, callerNs, clVars, svVars,
                   sockVars, netVars, histVars,
                   peerVars, harnessVars>>

\* Lines 141-158: the abort pair, the two futures, and the first poll of
\* try_join!, which polls the client first.
StartTasks ==
    /\ co' = "running"
    /\ bs' = "done"
    /\ turn' = "client"
    /\ aborted' = FALSE
    /\ UNCHANGED result

\* (mutant) bind_server's error is swallowed.
BindServerFailed_Never(ret) == FALSE
\* The `?` on bind_server's result.
BindServerFailed(ret) == ret # "Ok"

\* scoped joins the worker and bind_server goes on with what f returned.
BindJoin ==
    /\ co = "binding" /\ bs = "scoped"
    /\ wk.st = "exited" /\ wk.who = "bind"
    /\ wk' = NoWorker
    /\ joined' = wk
    /\ bindErr' = IF wk.ret # "Ok" THEN wk.ret ELSE bindErr
    /\ IF BindServerFailed(wk.ret)
       THEN /\ Exit(ResErr(wk.ret))
            /\ UNCHANGED <<bs, aborted>>
       ELSE /\ ssock' = wk.sock
            /\ bs' = IF proto = "Tcp" THEN "bind" ELSE "from_std"
            /\ UNCHANGED <<co, turn, result, aborted, csock>>
    /\ UNCHANGED <<cfgVars, deadline, callerNs, clVars, svVars, stream, netVars,
                   fault, refusedSeen, timedOut, recvLen, peerVars, harnessVars>>

\* Tcp::bind_server: socket.bind((target_addr, port))?
TcpBind ==
    /\ co = "binding" /\ bs = "bind"
    /\ \E ok \in BOOLEAN :
         LET ret == IF ~ok THEN "EADDRINUSE"
                    ELSE BindErrno(ssock, path.target_addr, "fixed")
         IN  /\ fault' = (fault \/ ~ok)
             /\ bindErr' = IF ret # "Ok" THEN ret ELSE bindErr
             /\ IF BindServerFailed(ret)
                THEN /\ Exit(ResErr(ret))
                     /\ UNCHANGED bs
                ELSE /\ ssock' = [ssock EXCEPT !.st = "bound", !.addr = path.target_addr]
                     /\ bs' = "listen"
                     /\ UNCHANGED <<co, turn, result, csock>>
    /\ UNCHANGED <<cfgVars, aborted, deadline, thrVars, clVars, svVars, stream, netVars,
                   refusedSeen, timedOut,
                   joined, recvLen, peerVars, harnessVars>>

\* Tcp::bind_server: socket.listen(1)
TcpListen ==
    /\ co = "binding" /\ bs = "listen"
    /\ \E ok \in BOOLEAN :
         LET ret == IF ok THEN "Ok" ELSE "EADDRINUSE"
         IN  /\ fault' = (fault \/ ~ok)
             /\ bindErr' = IF ret # "Ok" THEN ret ELSE bindErr
             /\ IF BindServerFailed(ret)
                THEN /\ Exit(ResErr(ret))
                     /\ UNCHANGED <<bs, aborted>>
                ELSE /\ ssock' = [ssock EXCEPT !.st = "listening"]
                     /\ StartTasks
                     /\ UNCHANGED csock
    /\ UNCHANGED <<cfgVars, deadline, thrVars, clVars, svVars, stream, netVars,
                   refusedSeen, timedOut,
                   joined, recvLen, peerVars, harnessVars>>

\* Udp::bind_server: .and_then(UdpSocket::from_std)
UdpFromStd ==
    /\ co = "binding" /\ bs = "from_std"
    /\ \E ok \in BOOLEAN :
         LET ret == IF ok THEN "Ok" ELSE "EBADF"
         IN  /\ fault' = (fault \/ ~ok)
             /\ bindErr' = IF ret # "Ok" THEN ret ELSE bindErr
             /\ IF BindServerFailed(ret)
                THEN /\ Exit(ResErr(ret))
                     /\ UNCHANGED <<bs, aborted>>
                ELSE /\ StartTasks
                     /\ UNCHANGED <<ssock, csock>>
    /\ UNCHANGED <<cfgVars, deadline, thrVars, clVars, svVars, stream, netVars,
                   refusedSeen, timedOut,
                   joined, recvLen, peerVars, harnessVars>>

\* ---------------------------------------------------------------- client
\* (mutant) the client is started alongside bind_server.
ClientMayRun_Eager == co \in {"binding", "running"} /\ turn \in {"none", "client"}
\* The client future is made after bind_server has returned Ok, and is polled
\* by try_join!.
ClientMayRun == co = "running" /\ turn = "client"

\* (mutant) only an error aborts the server.
ShouldAbort_ErrOnly(r) == r.kind = "Err"
\* (mutant) the abort handle is never used.
ShouldAbort_Never(r) == FALSE
\* (mutant) every completion of the client aborts the server.
ShouldAbort_Always(r) == TRUE
\* The inspect closure on the client: which results abort the server.
ShouldAbort(r) == r.kind \in {"Refused", "Err"}

\* The client future completes with r: the inspect closure runs, the client's
\* socket is dropped with the future's locals, and try_join! returns at once
\* when r is an error.
ClientFinish(r) ==
    /\ cl' = "done"
    /\ clRes' = r
    /\ aborted' = (aborted \/ ShouldAbort(r))
    /\ IF r.kind = "Err"
       THEN Exit(ResErr(r.errno))
       ELSE /\ turn' = "server"
            /\ csock' = Drop(csock)
            /\ UNCHANGED <<co, result, ssock>>

\* The client starts: its scoped call spawns the worker for the source
\* namespace.
ClientStart ==
    /\ ClientMayRun /\ cl = "new"
    /\ cl' = "scoped"
    /\ wk' = SpawnScoped(path.source, "client")
    /\ UNCHANGED <<cfgVars, coVars, deadline, callerNs, clRes, cookie, svVars, sockVars,
                   netVars, histVars,
                   peerVars, harnessVars>>

\* scoped joins the worker; `?` on what f returned.
ClientJoin ==
    /\ ClientMayRun /\ cl = "scoped"
    /\ wk.st = "exited" /\ wk.who = "client"
    /\ wk' = NoWorker
    /\ joined' = wk
    /\ IF wk.ret # "Ok"
       THEN ClientFinish(ClientErr(wk.ret))
       ELSE /\ csock' = wk.sock
            /\ cl' = IF proto = "Tcp" THEN "connect" ELSE "from_std"
            /\ UNCHANGED <<co, turn, result, aborted, clRes, ssock>>
    /\ UNCHANGED <<cfgVars, bs, deadline, callerNs, cookie, svVars, stream, netVars,
                   fault, refusedSeen, timedOut, bindErr, recvLen, peerVars, harnessVars>>

\* (mutant) every failure of connect is taken for a refusal.
TcpOnConnectErr_AllRefused(e) == ClientRefused
\* Tcp::client: the match on connect's error.
TcpOnConnectErr(e) == IF e = "ECONNREFUSED" THEN ClientRefused ELSE ClientErr(e)

\* Tcp::client: socket.connect(..) is called; the SYN leaves and the future
\* waits for the socket to become writable.
TcpClientConnect ==
    /\ ClientMayRun /\ cl = "connect" /\ proto = "Tcp"
    /\ \E ok \in BOOLEAN :
         LET ret == IF ~ok THEN "ENETDOWN"
                    ELSE IF ~CanConnect(csock, path.target_addr) THEN "EAFNOSUPPORT"
                    ELSE IF SrcSelect(csock, path.target_addr) = NoAddr THEN "ENETUNREACH"
                    ELSE "Ok"
         IN  /\ fault' = (fault \/ ~ok)
             /\ IF ret = "Ok"
                THEN /\ csock' = [csock EXCEPT !.st = "syn_sent",
                                      !.addr = SrcSelect(csock, path.target_addr)]
                     /\ cl' = "connecting"
                     /\ turn' = "server"
                     /\ UNCHANGED <<co, result, aborted, clRes, ssock>>
                ELSE ClientFinish(TcpOnConnectErr(ret))
    /\ UNCHANGED <<cfgVars, bs, deadline, thrVars, cookie, svVars, stream, netVars,
                   refusedSeen, timedOut, bindErr,
                   joined, recvLen, peerVars, harnessVars>>

\* (mutant) the cookie is written whatever connect returned.
TcpConnectOk_Always(s) == TRUE
\* Tcp::client: connect(..).await matched Ok(socket).
TcpConnectOk(s) == s.st = "established"

\* Tcp::client, polled after the connection attempt has ended: Ok writes a
\* fresh cookie, ECONNREFUSED is Refused, any other error is returned.
TcpClientConnected ==
    /\ ClientMayRun /\ cl = "connecting"
    /\ csock.st \in {"established", "failed"}
    /\ IF ~TcpConnectOk(csock)
       THEN /\ ClientFinish(TcpOnConnectErr(csock.err))
            /\ refusedSeen' = (refusedSeen \/ csock.err = "ECONNREFUSED")
            /\ UNCHANGED <<cookie, wire, fault>>
       ELSE \E c \in Cookies, ok \in BOOLEAN :
              /\ cookie' = c
              /\ fault' = (fault \/ ~ok)
              /\ UNCHANGED refusedSeen
              /\ IF ok
                 THEN /\ wire' = [wire EXCEPT !["c"] = ToBeBytes(c)]
                      /\ ClientFinish(SentCookie(c))
                 ELSE /\ ClientFinish(ClientErr("EPIPE"))
                      /\ UNCHANGED wire
    /\ UNCHANGED <<cfgVars, bs, deadline, thrVars, svVars, stream, acceptq, inflight,
                   rcvq, icmp, foreign, timedOut, bindErr,
                   joined, recvLen, peerVars, harnessVars>>

\* Udp::client: .and_then(UdpSocket::from_std)?
UdpClientFromStd ==
    /\ ClientMayRun /\ cl = "from_std"
    /\ \E ok \in BOOLEAN :
         /\ fault' = (fault \/ ~ok)
         /\ IF ok
            THEN /\ cl' = "connect"
                 /\ UNCHANGED <<co, turn, result, aborted, clRes, ssock, csock>>
            ELSE ClientFinish(ClientErr("EBADF"))
    /\ UNCHANGED <<cfgVars, bs, deadline, thrVars, cookie, svVars, stream, netVars,
                   refusedSeen, timedOut, bindErr,
                   joined, recvLen, peerVars, harnessVars>>

\* Udp::client: socket.connect((target_addr, port)).await?
UdpClientConnect ==
    /\ ClientMayRun /\ cl = "connect" /\ proto = "Udp"
    /\ \E ok \in BOOLEAN :
         LET ret == IF ~ok THEN "ENETDOWN"
                    ELSE IF ~CanConnect(csock, path.target_addr) THEN "EAFNOSUPPORT"
                    ELSE "Ok"
         IN  /\ fault' = (fault \/ ~ok)
             /\ IF ret = "Ok"
                THEN /\ csock' = [csock EXCEPT !.st = "connected"]
                     /\ cl' = "send"
                     /\ UNCHANGED <<co, turn, result, aborted, clRes, ssock>>
                ELSE ClientFinish(ClientErr(ret))
    /\ UNCHANGED <<cfgVars, bs, deadline, thrVars, cookie, svVars, stream, netVars,
                   refusedSeen, timedOut, bindErr,
                   joined, recvLen, peerVars, harnessVars>>

\* Udp::client: socket.send(..) waits for the socket to be writable.
UdpClientSendPending ==
    /\ ClientMayRun /\ cl = "send"
    /\ cl' = "send_wait"
    /\ turn' = "server"
    /\ UNCHANGED <<cfgVars, co, bs, result, aborted, deadline, thrVars, clRes, cookie,
                   svVars, sockVars, netVars, histVars,
                   peerVars, harnessVars>>

\* The rule of an output path sits in the output hook of the namespace the
\* client sends from (test_output); on every other path the packet has left
\* the sender before it meets the rule.
EgressFiltered == (\E f \in Families : path = MkPath("output", f)) /\ net # "accept"
\* What send returns for a datagram: Linux fails the sendmsg of a packet that
\* the output hook drops (a reject is a drop with an ICMP error) with EPERM.
SendErrno == IF EgressFiltered THEN "EPERM" ELSE "Ok"

\* Udp::client: a fresh cookie is sent as one datagram of 16 bytes; the
\* network delivers it, drops it, or rejects it.
UdpClientSend ==
    /\ ClientMayRun /\ cl \in {"send", "send_wait"}
    /\ \E c \in Cookies, ok \in BOOLEAN :
         /\ cookie' = c
         /\ fault' = (fault \/ ~ok)
         /\ IF ok /\ SendErrno # "Ok"
            THEN /\ ClientFinish(ClientErr(SendErrno))
                 /\ UNCHANGED <<inflight, icmp>>
            ELSE IF ok
            THEN /\ cl' = "sent"
                 /\ inflight' = IF net = "accept"
                                THEN [peer |-> SrcSelect(csock, path.target_addr),
                                      bytes |-> ToBeBytes(c)]
                                ELSE inflight
                 /\ icmp' = IF net = "reject" THEN "pending" ELSE icmp
                 /\ UNCHANGED <<co, turn, result, aborted, clRes, ssock, csock>>
            ELSE /\ ClientFinish(ClientErr("ENETDOWN"))
                 /\ UNCHANGED <<inflight, icmp>>
    /\ UNCHANGED <<cfgVars, bs, deadline, thrVars, svVars, stream, acceptq, wire, rcvq,
                   foreign, refusedSeen, timedOut, bindErr,
                   joined, recvLen, peerVars, harnessVars>>

\* (mutant) the pending error is not looked at.
UdpOnTakeError_IgnoreErr(e, c) == SentCookie(c)
\* Udp::client: the match on the socket's pending error.
UdpOnTakeError(e, c) ==
    IF e = "none" THEN SentCookie(c)
    ELSE IF e = "ECONNREFUSED" THEN ClientRefused
    ELSE ClientErr(e)

\* Udp::client: socket.take_error()? right after the send, then the match.
UdpClientTakeError ==
    /\ ClientMayRun /\ cl = "sent"
    /\ \E ok \in BOOLEAN :
         /\ fault' = (fault \/ ~ok)
         /\ refusedSeen' = (refusedSeen \/ (ok /\ csock.err = "ECONNREFUSED"))
         /\ IF ok
            THEN ClientFinish(UdpOnTakeError(csock.err, cookie))
            ELSE ClientFinish(ClientErr("EBADF"))
    /\ UNCHANGED <<cfgVars, bs, deadline, thrVars, cookie, svVars, stream, netVars,
                   timedOut, bindErr,
                   joined, recvLen, peerVars, harnessVars>>

\* What the client waits for has happened.
ClientReady ==
    \/ cl = "connecting" /\ csock.st # "syn_sent"
    \/ cl = "send_wait"

\* The client is done already, or still waits: try_join! goes on to the server.
ClientPending ==
    /\ ClientMayRun
    /\ cl = "done" \/ (cl = "connecting" /\ ~ClientReady)
    /\ turn' = "server"
    /\ UNCHANGED <<cfgVars, co, bs, result, aborted, deadline, thrVars, clVars, svVars,
                   sockVars, netVars, histVars,
                   peerVars, harnessVars>>

\* ---------------------------------------------------------------- server
ServerMayRun == co = "running" /\ turn = "server"

ServerErr == [kind |-> "Err", cookie |-> -1, peer_addr |-> NoAddr]

\* (mutant) the server reports its own local address.
PeerAddr_Local(conn) == ssock.addr
\* The address the server reports: peer_addr.ip() of accept / recv_from.
PeerAddr(conn) == conn.peer

\* What the server waits for has happened.
ServerReady ==
    \/ proto = "Tcp" /\ sv = "new" /\ acceptq # << >>
    \/ proto = "Tcp" /\ sv = "read" /\ Len(wire[stream.id]) >= CookieLen
    \/ proto = "Udp" /\ sv = "new" /\ rcvq # << >>

\* The server future completes with r; the listener / bound socket it owns is
\* dropped with it.
ServerFinish(r) ==
    /\ sv' = "done"
    /\ svRes' = r
    /\ ssock' = Drop(ssock)
    /\ turn' = "join"
    /\ UNCHANGED <<co, result, csock>>

\* (mutant) the Aborted of Abortable stays an error of the server future.
OnAborted_Err == ServerErr
\* What the map on Abortable makes of Err(Aborted): the normal output
\* Ok(ServerStatus::Aborted).
OnAborted == ServerAborted
\* Abortable looks at the flag before it polls the server: Aborted becomes the
\* output Ok(ServerStatus::Aborted).
ServerAbort ==
    /\ ServerMayRun /\ sv # "done" /\ aborted
    /\ sv' = "done"
    /\ svRes' = OnAborted
    /\ IF OnAborted.kind = "Err"
       THEN Exit(ResErr("EIO"))
       ELSE /\ turn' = "join"
            /\ UNCHANGED <<co, result, ssock, csock>>
    /\ UNCHANGED <<cfgVars, bs, aborted, deadline, thrVars, clVars,
                   stream, netVars, histVars,
                   peerVars, harnessVars>>

\* Tcp::server: socket.accept().await?
TcpServerAccept ==
    /\ ServerMayRun /\ ~aborted /\ proto = "Tcp" /\ sv = "new"
    /\ acceptq # << >>
    /\ stream' = Head(acceptq)
    /\ acceptq' = Tail(acceptq)
    /\ sv' = "read"
    /\ UNCHANGED <<cfgVars, coVars, deadline, thrVars, clVars, svRes, ssock, csock,
                   wire, inflight, rcvq, icmp, foreign, histVars,
                   peerVars, harnessVars>>

\* Tcp::server: stream.read_u128().await?, then ReceivedCookie.
TcpServerRead ==
    /\ ServerMayRun /\ ~aborted /\ proto = "Tcp" /\ sv = "read"
    /\ Len(wire[stream.id]) >= CookieLen
    /\ ServerFinish(ReceivedCookie(FromBeBytes(SubSeq(wire[stream.id], 1, CookieLen)),
                                   PeerAddr(stream)))
    /\ UNCHANGED <<cfgVars, bs, aborted, deadline, thrVars, clVars, stream, netVars,
                   histVars,
                   peerVars, harnessVars>>

\* Udp::server: recv_from into a buffer of 16 bytes (a longer datagram is cut
\* to the buffer), assert_eq!(size, buf.len()), then ReceivedCookie.
UdpServerRecv ==
    /\ ServerMayRun /\ ~aborted /\ proto = "Udp" /\ sv = "new"
    /\ rcvq # << >>
    /\ rcvq' = Tail(rcvq)
    /\ recvLen' = Len(Head(rcvq).bytes)
    /\ LET d == Head(rcvq)
           size == Min(Len(d.bytes), CookieLen)
       IN  IF size = CookieLen
           THEN ServerFinish(ReceivedCookie(FromBeBytes(SubSeq(d.bytes, 1, size)),
                                            PeerAddr(d)))
           ELSE /\ Exit(ResPanic("assertion failed: size == buf.len()"))
                /\ UNCHANGED svVars
    /\ UNCHANGED <<cfgVars, bs, aborted, deadline, thrVars, clVars, stream, acceptq,
                   wire, inflight, icmp, foreign, fault, refusedSeen, timedOut, bindErr,
                   joined, peerVars, harnessVars>>

\* accept, read_u128 or recv_from returns an error: the server's `?` returns
\* it and try_join! returns it at once.
ServerFault ==
    /\ ServerMayRun /\ ~aborted /\ sv # "done"
    /\ sv' = "done"
    /\ svRes' = ServerErr
    /\ fault' = TRUE
    /\ Exit(ResErr("EIO"))
    /\ UNCHANGED <<cfgVars, bs, aborted, deadline, thrVars, clVars, stream, netVars,
                   refusedSeen, timedOut, bindErr,
                   joined, recvLen, peerVars, harnessVars>>

\* The server is done already, or still waits: try_join! has polled both.
ServerPending ==
    /\ ServerMayRun
    /\ sv = "done" \/ (~aborted /\ ~ServerReady)
    /\ turn' = "join"
    /\ UNCHANGED <<cfgVars, co, bs, result, aborted, deadline, thrVars, clVars, svVars,
                   sockVars, netVars, histVars,
                   peerVars, harnessVars>>

\* ---------------------------------------------------------------- joining
\* (mutant) the cookies are not compared.
ConnectMatch_NoAssert(c, s) ==
    CASE c.kind = "SentCookie" /\ s.kind = "ReceivedCookie" -> ResOk(s.peer_addr)
      [] c.kind = "Refused" /\ s.kind = "Aborted" -> ResRefused
      [] OTHER -> ResPanic("Invalid state")
\* (mutant) the arm for (Refused, Aborted) is missing.
ConnectMatch_NoRefusedArm(c, s) ==
    CASE c.kind = "SentCookie" /\ s.kind = "ReceivedCookie" ->
           IF s.cookie = c.cookie
           THEN ResOk(s.peer_addr)
           ELSE ResPanic("assertion failed: rx.cookie == tx.cookie")
      [] OTHER -> ResPanic("Invalid state")
\* The match on try_join!'s pair.
ConnectMatch(c, s) ==
    CASE c.kind = "SentCookie" /\ s.kind = "ReceivedCookie" ->
           IF s.cookie = c.cookie
           THEN ResOk(s.peer_addr)
           ELSE ResPanic("assertion failed: rx.cookie == tx.cookie")
      [] c.kind = "Refused" /\ s.kind = "Aborted" -> ResRefused
      [] OTHER -> ResPanic("Invalid state")

\* Both futures are done: connect returns what the match gives.
ConnectJoin ==
    /\ co = "running" /\ turn = "join"
    /\ cl = "done" /\ sv = "done"
    /\ Exit(ConnectMatch(clRes, svRes))
    /\ UNCHANGED <<cfgVars, bs, aborted, deadline, thrVars, clVars, svVars, stream,
                   netVars, histVars,
                   peerVars, harnessVars>>

\* One of the two is not done: the poll of try_join! ends Pending.
Park ==
    /\ co = "running" /\ turn = "join"
    /\ ~(cl = "done" /\ sv = "done")
    /\ turn' = "parked"
    /\ UNCHANGED <<cfgVars, co, bs, result, aborted, deadline, thrVars, clVars, svVars,
                   sockVars, netVars, histVars,
                   peerVars, harnessVars>>

\* The runtime polls the task again when a socket it waits on is ready.
Wake ==
    /\ co = "running" /\ turn = "parked"
    /\ ClientReady \/ ServerReady
    /\ turn' = "client"
    /\ UNCHANGED <<cfgVars, co, bs, result, aborted, deadline, thrVars, clVars, svVars,
                   sockVars, netVars, histVars,
                   peerVars, harnessVars>>

\* ------------------------------------------------------------------ timer
\* (mutant) connect itself carries the timer.
TimerArmed_Always == TRUE
\* (mutant) connect is awaited without the timeout.
TimerArmed_Never == FALSE
\* connect_with_timeout wraps connect in timeout(duration, ..); the tests of
\* the connectors call connect itself.
TimerArmed == timed

\* (mutant) Elapsed is returned as an error.
OnElapsed_Err == ResErr("ETIMEDOUT")
\* What the timer's Elapsed is turned into.
OnElapsed == ResUnreachable

\* The 2 seconds pass.
Tick ==
    /\ TimerArmed /\ co \in {"binding", "running"} /\ ~deadline
    /\ deadline' = TRUE
    /\ UNCHANGED <<cfgVars, coVars, thrVars, clVars, svVars, sockVars, netVars, histVars,
                   peerVars, harnessVars>>

\* (mutant) the timer cuts the probe off wherever it is.
TimerPolled_Preempt == co \in {"binding", "running"}
\* Timeout polls connect first and the timer only when that poll has ended
\* Pending.
TimerPolled == co = "running" /\ turn = "parked"

\* Timeout polls connect first and the timer only when connect is Pending.
Timeout ==
    /\ TimerArmed /\ deadline
    /\ TimerPolled
    /\ timedOut' = TRUE
    /\ Exit(OnElapsed)
    /\ UNCHANGED <<cfgVars, bs, aborted, deadline, thrVars, clVars, svVars, stream,
                   netVars, fault, refusedSeen, bindErr,
                   joined, recvLen, peerVars, harnessVars>>

\* ---------------------------------------------------------------- network
\* The SYN reaches the listener: the handshake completes and the connection
\* waits in the accept queue, with the client's address as its peer.
NetSynAck ==
    /\ csock.st = "syn_sent" /\ net = "accept" /\ ssock.st = "listening"
    /\ csock' = [csock EXCEPT !.st = "established"]
    /\ acceptq' = Append(acceptq, [id |-> "c", peer |-> csock.addr])
    /\ UNCHANGED <<cfgVars, coVars, deadline, thrVars, clVars, svVars, ssock, stream,
                   wire, inflight, rcvq, icmp, foreign, histVars,
                   peerVars, harnessVars>>

\* The SYN is answered with a reset: by the firewall's reject, or because
\* nothing listens any more.
NetRst ==
    /\ csock.st = "syn_sent"
    /\ net = "reject" \/ (net = "accept" /\ ssock.st # "listening")
    /\ csock' = [csock EXCEPT !.st = "failed", !.err = "ECONNREFUSED"]
    /\ UNCHANGED <<cfgVars, coVars, deadline, thrVars, clVars, svVars, ssock, stream,
                   netVars, histVars,
                   peerVars, harnessVars>>

\* The connection attempt ends with another error.
NetUnreach ==
    /\ csock.st = "syn_sent"
    /\ csock' = [csock EXCEPT !.st = "failed", !.err = "EHOSTUNREACH"]
    /\ fault' = TRUE
    /\ UNCHANGED <<cfgVars, coVars, deadline, thrVars, clVars, svVars, ssock, stream,
                   netVars, refusedSeen, timedOut, bindErr,
                   joined, recvLen, peerVars, harnessVars>>

\* The datagram reaches the server socket, if it is still bound.
NetDeliver ==
    /\ inflight # NoDgram /\ ssock.st = "bound"
    /\ rcvq' = Append(rcvq, inflight)
    /\ inflight' = NoDgram
    /\ UNCHANGED <<cfgVars, coVars, deadline, thrVars, clVars, svVars, sockVars,
                   acceptq, wire, icmp, foreign, histVars,
                   peerVars, harnessVars>>

\* The rejection of the datagram reaches the client's socket, if it is still
\* open, as its pending error.
NetIcmp ==
    /\ icmp = "pending" /\ csock.st = "connected"
    /\ icmp' = "delivered"
    /\ csock' = [csock EXCEPT !.err = "ECONNREFUSED"]
    /\ UNCHANGED <<cfgVars, coVars, deadline, thrVars, clVars, svVars, ssock, stream,
                   acceptq, wire, inflight, rcvq, foreign, histVars,
                   peerVars, harnessVars>>

\* Another error becomes pending on the client's socket after the send.
NetUdpUnreach ==
    /\ cl = "sent" /\ csock.st = "connected" /\ csock.err = "none"
    /\ csock' = [csock EXCEPT !.err = "EHOSTUNREACH"]
    /\ fault' = TRUE
    /\ UNCHANGED <<cfgVars, coVars, deadline, thrVars, clVars, svVars, ssock, stream,
                   netVars, refusedSeen, timedOut, bindErr,
                   joined, recvLen, peerVars, harnessVars>>

\* A sender that is not the probe's client connects to the listener and
\* writes 16 bytes.
ForeignConnect ==
    /\ foreign < MaxForeign
    /\ proto = "Tcp" /\ ssock.st = "listening"
    /\ foreign' = foreign + 1
    /\ \E c \in Cookies :
         /\ acceptq' = Append(acceptq, [id |-> "f", peer |-> ForeignAddr(ssock.fam)])
         /\ wire' = [wire EXCEPT !["f"] = ToBeBytes(c)]
    /\ UNCHANGED <<cfgVars, coVars, deadline, thrVars, clVars, svVars, sockVars,
                   inflight, rcvq, icmp, histVars,
                   peerVars, harnessVars>>

\* A sender that is not the probe's client sends a datagram to the server
\* socket.
ForeignDatagram ==
    /\ foreign < MaxForeign
    /\ proto = "Udp" /\ ssock.st = "bound" /\ co = "running"
    /\ foreign' = foreign + 1
    /\ \E c \in Cookies, n \in {CookieLen - 1, CookieLen, CookieLen + 1} :
         rcvq' = Append(rcvq, [peer |-> ForeignAddr(ssock.fam), bytes |-> BeBytes(c, n)])
    /\ UNCHANGED <<cfgVars, coVars, deadline, thrVars, clVars, svVars, sockVars,
                   acceptq, wire, inflight, icmp, histVars,
                   peerVars, harnessVars>>

\* ---------------------------------------------------------- specification
\* The steps of the program: the coordinator's task and the scoped worker.
Program ==
    \/ Call \/ WorkerSetns \/ WorkerRun \/ BindJoin \/ TcpBind \/ TcpListen \/ UdpFromStd
    \/ ClientStart \/ ClientJoin \/ TcpClientConnect \/ TcpClientConnected
    \/ UdpClientFromStd \/ UdpClientConnect \/ UdpClientSendPending \/ UdpClientSend
    \/ UdpClientTakeError \/ ClientPending
    \/ ServerAbort \/ TcpServerAccept \/ TcpServerRead \/ UdpServerRecv
    \/ ServerFault \/ ServerPending
    \/ ConnectJoin \/ Park \/ Wake

\* The steps of the kernel and the network around it.
Environment ==
    \/ WorkerHang \/ NetSynAck \/ NetRst \/ NetUnreach \/ NetDeliver \/ NetIcmp
    \/ NetUdpUnreach

Next == Program \/ Tick \/ Timeout \/ Environment

\* One probe, with only its own client sending to its server.
Spec == Init /\ [][Next]_vars

\* The same with the scheduling the runtime gives: a task that can run is
\* polled, a thread that can run runs, and the timer fires.
FairSpec == Spec /\ WF_vars(Program) /\ WF_vars(Tick) /\ WF_vars(Timeout)

\* One probe whose server socket other senders can reach too.
NextOpen == Next \/ ForeignConnect \/ ForeignDatagram
SpecOpen == Init /\ [][NextOpen]_vars

\* ------------------------------------------------------------ two probes
\* A second call of connect runs beside this one.  It is followed only as far
\* as the kernel lets it meet this probe: the port its server socket holds,
\* and the datagram its client sends.
probeVars == <<cfgVars, coVars, deadline, thrVars, clVars, svVars, sockVars, histVars>>

\* The other probe's bind_server: on this probe's target it fails with
\* EADDRINUSE while this probe's server socket holds the port, and its
\* client is never started.
OtherBind ==
    /\ other.st = "none"
    /\ \E same \in BOOLEAN :
         other' = [st |-> IF same /\ ssock.st \in {"bound", "listening"}
                          THEN "failed" ELSE "bound",
                   same |-> same]
    /\ UNCHANGED <<probeVars, netVars, otherPkt, harnessVars>>

\* The other probe's client sends its cookie to its own target.
OtherSend ==
    /\ other.st = "bound"
    /\ other' = [other EXCEPT !.st = "sent"]
    /\ \E c \in Cookies :
         otherPkt' = [peer |-> ForeignAddr(path.target_addr.fam), bytes |-> ToBeBytes(c)]
    /\ UNCHANGED <<probeVars, netVars, harnessVars>>

\* The other probe's server receives the cookie and the other probe returns.
OtherRecv ==
    /\ other.st = "sent" /\ otherPkt # NoDgram
    /\ other' = [other EXCEPT !.st = "done"]
    /\ otherPkt' = NoDgram
    /\ UNCHANGED <<probeVars, netVars, harnessVars>>

\* The other probe returns another way (its timer, an error), its sockets
\* are closed; what its client sent may still be on its way.
OtherEnd ==
    /\ other.st \in {"bound", "sent"}
    /\ other' = [other EXCEPT !.st = "done"]
    /\ UNCHANGED <<probeVars, netVars, otherPkt, harnessVars>>

\* The other client's datagram arrives after its probe has returned: the UDP
\* socket then bound at its destination gets it.
OtherLate ==
    /\ other.st = "done" /\ other.same /\ otherPkt # NoDgram
    /\ proto = "Udp" /\ ssock.st = "bound"
    /\ rcvq' = Append(rcvq, otherPkt)
    /\ otherPkt' = NoDgram
    /\ UNCHANGED <<probeVars, acceptq, wire, inflight, icmp, foreign, other, harnessVars>>

\* ------------------------------------------------------------------ OsNs
connVars == <<cfgVars, coVars, deadline, thrVars, clVars, svVars, sockVars, netVars,
              histVars, peerVars>>

\* The kernel keeps a network namespace while a thread is in it or an open
\* file descriptor refers to it.
NsAlive(k) ==
    \/ mainNs = k
    \/ nn.st # "none" /\ nn.ns = k
    \/ \E n \in Fds : fds[n] = FdNs(k)
\* What a path of /proc/<pid>/fd/<n> resolves to.
Resolve(p) == IF p.pid = "self" THEN fds[p.fd] ELSE FdFree
\* open(2) returns the lowest free number.
HasFreeFd == \E n \in Fds : fds[n] = FdFree
LowestFree == CHOOSE n \in Fds : fds[n] = FdFree /\ \A m \in Fds : fds[m] = FdFree => n <= m

\* (mutant) unshare is called on the thread that calls new_net.
NewNetThread_Caller == "caller"
\* new_net: unshare runs inside std::thread::spawn, on the worker.
NewNetThread == "worker"
\* (mutant) the OsNs keeps the path only; the File is closed with the worker.
KeepsFd_PathOnly == FALSE
\* The OsNs owns the File it opened (field fd), so the descriptor stays open
\* for as long as the OsNs lives.
KeepsFd == TRUE

\* new_net: std::thread::spawn; the worker starts in its creator's namespace.
NewNetSpawn ==
    /\ nn.st = "none" /\ nsNext < MaxNs
    /\ nn' = [NoNewNet EXCEPT !.st = "spawned", !.ns = mainNs]
    /\ UNCHANGED <<connVars, fds, handles, nsNext, mainNs, entered, pickVars>>

\* new_net: unshare(CLONE_NEWNET); -1 makes the worker return the error.
NewNetUnshare ==
    /\ nn.st = "spawned"
    /\ \E ok \in BOOLEAN :
         IF ok
         THEN /\ nsNext' = nsNext + 1
              /\ nn' = [nn EXCEPT !.st = "unshared", !.made = nsNext + 1,
                                  !.ns = IF NewNetThread = "worker" THEN nsNext + 1 ELSE @]
              /\ mainNs' = IF NewNetThread = "worker" THEN mainNs ELSE nsNext + 1
         ELSE /\ nn' = [nn EXCEPT !.st = "failed", !.err = "EPERM"]
              /\ UNCHANGED <<nsNext, mainNs>>
    /\ UNCHANGED <<connVars, fds, handles, entered, pickVars>>

\* new_net: open("/proc/thread-self/ns/net")?: a descriptor for the
\* namespace the worker is in.
NewNetOpen ==
    /\ nn.st = "unshared"
    /\ \E ok \in BOOLEAN :
         IF ok /\ HasFreeFd
         THEN /\ fds' = [fds EXCEPT ![LowestFree] = FdNs(nn.ns)]
              /\ nn' = [nn EXCEPT !.st = "opened", !.fd = LowestFree]
         ELSE /\ nn' = [nn EXCEPT !.st = "failed", !.err = "EMFILE"]
              /\ UNCHANGED fds
    /\ UNCHANGED <<connVars, handles, nsNext, mainNs, entered, pickVars>>

\* new_net: the worker returns and exits, join() hands its result to the
\* caller.
NewNetJoin ==
    /\ nn.st \in {"opened", "failed"}
    /\ nn' = NoNewNet
    /\ IF nn.st = "opened"
       THEN /\ handles' = handles \cup {OsNs(nn.fd, nn.made)}
            /\ fds' = IF KeepsFd THEN fds ELSE [fds EXCEPT ![nn.fd] = FdFree]
       ELSE UNCHANGED <<handles, fds>>
    /\ UNCHANGED <<connVars, nsNext, mainNs, entered, pickVars>>

\* An OsNs is dropped: its File is closed.
NsDrop ==
    /\ \E h \in handles :
         /\ handles' = handles \ {h}
         /\ fds' = [fds EXCEPT ![h.fd] = FdFree]
    /\ UNCHANGED <<connVars, nn, nsNext, mainNs, entered, pickVars>>

\* The process opens, and closes, other files and sockets.
OpenFile ==
    /\ HasFreeFd
    /\ fds' = [fds EXCEPT ![LowestFree] = FdFile]
    /\ UNCHANGED <<connVars, handles, nn, nsNext, mainNs, entered, pickVars>>
CloseFile ==
    /\ \E n \in Fds : fds[n] = FdFile /\ fds' = [fds EXCEPT ![n] = FdFree]
    /\ UNCHANGED <<connVars, handles, nn, nsNext, mainNs, entered, pickVars>>

\* spawn_scoped on a live OsNs: setns(self.fd.as_raw_fd(), 0) on a worker.
NsSetns ==
    /\ \E h \in handles :
         entered' = IF fds[h.fd].kind = "ns" /\ NsAlive(fds[h.fd].ns)
                    THEN [fd |-> h.fd, made |-> h.made, ns |-> fds[h.fd].ns, err |-> "none"]
                    ELSE [fd |-> h.fd, made |-> h.made, ns |-> -1,
                          err |-> IF fds[h.fd] = FdFree THEN "EBADF" ELSE "EINVAL"]
    /\ UNCHANGED <<connVars, fds, handles, nn, nsNext, mainNs, pickVars>>

NextNs ==
    \/ NewNetSpawn \/ NewNetUnshare \/ NewNetOpen \/ NewNetJoin
    \/ NsDrop \/ OpenFile \/ CloseFile \/ NsSetns
\* No probe is under way while the OsNs values are followed: its
\* configuration is held at one value.
InitNs ==
    /\ Init
    /\ proto = "Tcp" /\ path = MkPath("loopback", "v4") /\ net = "accept" /\ timed
\* The life of the OsNs values of a process.
SpecNs == InitNs /\ [][NextNs]_vars

\* ------------------------------------------------- the peer's address
\* input_path / output_path / forward_path call random_peer_addr_with_net
\* with the address of an interface.
PeerCall ==
    /\ ppc = "idle"
    /\ \E x \in IpNets : pin' = x
    /\ ppc' = "loop"
    /\ UNCHANGED <<connVars, nsVars, pret, ptries, peerIf>>

\* One turn of the loop: a draw, the candidate, the assertion on its
\* network, and the return if the candidate is not the argument.
PeerIter ==
    /\ ppc = "loop"
    /\ \E r \in Draws(pin.fam) :
         LET ret == PeerCandidate(pin, r)
         IN  IF Network(ret) # Network(pin)
             THEN ppc' = "panic" /\ UNCHANGED <<pret, ptries>>
             ELSE IF PeerAccepted(pin, ret)
             THEN ppc' = "returned" /\ pret' = ret /\ UNCHANGED ptries
             ELSE /\ ptries < MaxTries
                  /\ ptries' = ptries + 1
                  /\ UNCHANGED <<ppc, pret>>
    /\ UNCHANGED <<connVars, nsVars, pin, peerIf>>

\* The path constructor gives the address to the peer end of the interface:
\* peer_ns.set_addr(peer_name, peer_addr_with_net).
PeerSetAddr ==
    /\ ppc = "returned"
    /\ peerIf' = pret
    /\ ppc' = "set"
    /\ UNCHANGED <<connVars, nsVars, pin, pret, ptries>>

NextPeer == PeerCall \/ PeerIter \/ PeerSetAddr
InitPeer == InitNs
\* The choice of a peer address by the path constructors.
SpecPeer == InitPeer /\ [][NextPeer]_vars

NextTwo == Next \/ OtherBind \/ OtherSend \/ OtherRecv \/ OtherEnd \/ OtherLate
\* Two probes, interleaved in every way.
SpecTwo == Init /\ [][NextTwo]_vars

\* ----------------------------------------------------------------- claims
\* The client has performed a socket action: its scoped call (socket
\* creation), or anything after it.
ClientActed == cl # "new" \/ csock # NoSock \/ wk.who = "client"

\* What bind_server leaves when it returns Ok: a listener (Tcp) or a bound
\* socket (Udp) at the target address; closed again once its owner is dropped.
ServerWasBound ==
    /\ bs = "done" /\ bindErr = "none"
    /\ ssock.st \in {IF proto = "Tcp" THEN "listening" ELSE "bound", "closed"}
    /\ ssock.ns = path.target
    /\ ssock.addr = path.target_addr

\* C1: in every state in which the client has performed a socket action,
\* bind_server has returned Ok: the server socket exists and is bound to the
\* target address.
C1_BindBeforeClient == ClientActed => ServerWasBound

\* C1 witness: the TCP client's SYN is out while the listener listens.
C1_Witness == cl = "connecting" /\ csock.st = "syn_sent" /\ ssock.st = "listening"

\* C2: once the client has been told ECONNREFUSED (by connect for Tcp, by
\* take_error for Udp), the server is aborted in the same poll and connect
\* returns Refused, nothing else.
C2_RefusedIsRefused ==
    refusedSeen =>
        /\ clRes = ClientRefused
        /\ aborted
        /\ co = "running" => turn \in {"server", "join"}
        /\ co = "running" /\ sv = "done" => svRes = ServerAborted
        /\ co = "done" => result = ResRefused

\* C2 witness: a UDP probe over a rejecting firewall has returned Refused.
C2_Witness ==
    /\ proto = "Udp" /\ net = "reject" /\ refusedSeen
    /\ co = "done" /\ result = ResRefused

\* C3: when the timer ends the probe, the two tasks have not both finished
\* and connect returns the value Unreachable, not an error; a probe whose
\* packet is silently dropped returns nothing but Unreachable (unless the
\* kernel fails a call), and only by the timer.
C3_TimeoutIsUnreachable ==
    /\ timedOut =>
          /\ co = "done" /\ result = ResUnreachable
          /\ ~(cl = "done" /\ sv = "done")
    /\ (co = "done" /\ net = "drop" /\ ~fault /\ ~(proto = "Udp" /\ EgressFiltered)) =>
          timed /\ timedOut /\ result = ResUnreachable

\* C3 witness: the timer has ended a TCP probe whose SYN was dropped.
C3_Witness ==
    /\ proto = "Tcp" /\ net = "drop" /\ timedOut
    /\ cl = "connecting" /\ result = ResUnreachable

C5_OkReportsPeer ==
    result.kind = "Ok" =>
        /\ svRes.kind = "ReceivedCookie"
        /\ result.source_addr = svRes.peer_addr
        /\ result.source_addr = csock.addr
        /\ csock.addr # NoAddr

\* C5 witness: an Ok on a path whose two ends have different addresses.
C5_Witness ==
    /\ result.kind = "Ok"
    /\ path.source_addr # path.target_addr
    /\ result.source_addr = path.source_addr

\* C6: over a network that accepts the packet, a probe that returns without
\* a kernel failure and without running out of time returns Ok with the
\* path's source address, for Tcp and Udp, v4 and v6.
C6_AcceptIsOk ==
    (co = "done" /\ net = "accept" /\ ~fault /\ ~timedOut) =>
        result = ResOk(path.source_addr)

\* C6 witness: a TCP probe over IPv6 between two namespaces has returned Ok;
\* its client socket was never bound by the program.
C6_Witness ==
    /\ proto = "Tcp" /\ path = MkPath("input", "v6") /\ net = "accept"
    /\ co = "done" /\ result = ResOk(path.source_addr)

\* C7: an Ok comes only from a pair (SentCookie c, ReceivedCookie c) with c
\* the cookie the client drew; a pair with two different cookies ends in the
\* panic of assert_eq!, never in a result.
C7_OkCookiesAgree ==
    /\ result.kind = "Ok" =>
          /\ clRes = SentCookie(cookie)
          /\ svRes.kind = "ReceivedCookie"
          /\ svRes.cookie = cookie
    /\ (co = "done" /\ clRes.kind = "SentCookie" /\ svRes.kind = "ReceivedCookie"
        /\ svRes.cookie # clRes.cookie) =>
          result = ResPanic("assertion failed: rx.cookie == tx.cookie")

\* C7 witness: the server read another sender's cookie, which differs from
\* the client's, and the probe ended in the panic.
C7_Witness ==
    /\ co = "done" /\ foreign > 0
    /\ clRes.kind = "SentCookie" /\ svRes.kind = "ReceivedCookie"
    /\ svRes.cookie # clRes.cookie
    /\ result.kind = "Panic"

\* C8: after connect has returned, by whatever path, neither the server
\* socket nor the client socket is open, and no worker holds one.
C8_NoSocketLeft ==
    co = "done" =>
        /\ ssock.st \in {"none", "closed"}
        /\ csock.st \in {"none", "closed"}
        /\ wk.sock = NoSock

\* C8 witness: the timer ended a probe whose listener was listening; the
\* listener is closed.
C8_Witness ==
    /\ co = "done" /\ timedOut
    /\ proto = "Tcp" /\ ssock.st = "closed" /\ csock.st = "closed"

\* C9: when a step of bind_server fails, connect returns that error at once,
\* and neither task has started: no client socket, no worker for the client.
C9_BindFailureReturns ==
    bindErr # "none" =>
        /\ co = "done" /\ result = ResErr(bindErr)
        /\ cl = "new" /\ sv = "new"
        /\ clRes = NoClient /\ svRes = NoServer
        /\ csock = NoSock /\ wk = NoWorker

\* C9 witness: listen failed after socket and bind had succeeded.
C9_Witness ==
    /\ proto = "Tcp" /\ bs = "listen" /\ bindErr # "none"
    /\ co = "done" /\ ssock.st = "closed"

\* The pair try_join! hands to the match.
Joined == co = "running" /\ turn = "join" /\ cl = "done" /\ sv = "done"

\* C10: the pair that reaches the match is (SentCookie, ReceivedCookie) or
\* (Refused, Aborted), and connect never ends in unreachable!.
C10_OnlyValidPairs ==
    /\ Joined =>
          \/ clRes.kind = "SentCookie" /\ svRes.kind = "ReceivedCookie"
          \/ clRes.kind = "Refused" /\ svRes.kind = "Aborted"
    /\ result # ResPanic("Invalid state")

\* C10 witness: the pair (Refused, Aborted) has reached the match.
C10_Witness == Joined /\ clRes.kind = "Refused" /\ svRes.kind = "Aborted"

\* While a worker exists its caller is inside the scoped call that made it.
CallerInScoped ==
    \/ co = "binding" /\ bs = "scoped" /\ wk.who = "bind"
    \/ co = "running" /\ cl = "scoped" /\ wk.who = "client"

\* C11: Ns::scoped runs f on a fresh worker thread and only after that thread
\* has entered the namespace, at most once, and exactly once when it entered;
\* the caller goes on only with a worker that has exited (joined), and the
\* calling thread's namespace never changes, whether f succeeded or failed.
C11_ScopedFrame ==
    /\ callerNs = "init_ns"
    /\ wk.st = "spawned" => wk.ns = callerNs /\ wk.runs = 0
    /\ wk.st = "entered" => wk.ns = wk.target /\ wk.runs = 0
    /\ wk.runs <= 1
    /\ wk.runs = 1 => wk.ns = wk.target /\ wk.st = "exited"
    /\ wk # NoWorker => CallerInScoped
    /\ joined # NoWorker =>
          /\ joined.st = "exited"
          /\ joined.runs = (IF joined.ns = joined.target THEN 1 ELSE 0)
          /\ joined.ret = "Ok" => joined.runs = 1 /\ joined.sock.ns = joined.target

\* C11 witness: a scoped call has returned the error of an f that ran once,
\* inside the namespace, and failed.
C11_Witness ==
    /\ joined.runs = 1 /\ joined.ns = joined.target /\ joined.ret = "EMFILE"
    /\ wk = NoWorker /\ callerNs = "init_ns"

\* C12 (as stated): a UDP probe whose datagram the output hook drops, which
\* the kernel reports to the sender, returns Refused.
C12_EgressDropIsRefused ==
    (proto = "Udp" /\ EgressFiltered /\ net = "drop" /\ co = "done" /\ ~fault) =>
        result = ResRefused

\* C13: an error of the client other than ECONNREFUSED, and an error of the
\* server's accept, read or recv, is what connect returns, unless the timer
\* ended the probe first; every error connect returns is the error of
\* bind_server, of the client or of the server; Refused comes only from an
\* ECONNREFUSED and Unreachable only from the timer.
C13_ErrorsSurface ==
    /\ clRes.kind = "Err" => co = "done" /\ result = ResErr(clRes.errno)
    /\ svRes = ServerErr => co = "done" /\ result = ResErr("EIO")
    /\ (csock.err \notin {"none", "ECONNREFUSED"} /\ co = "done" /\ ~timedOut) =>
          result.kind = "Err"
    /\ result.kind = "Err" =>
          \/ bindErr # "none" /\ result = ResErr(bindErr)
          \/ clRes.kind = "Err" /\ result = ResErr(clRes.errno)
          \/ svRes = ServerErr /\ result = ResErr("EIO")
    /\ result = ResRefused => refusedSeen
    /\ result = ResUnreachable => timedOut

\* C13 witness: the TCP connection attempt failed with EHOSTUNREACH and
\* connect returned that error.
C13_Witness ==
    /\ proto = "Tcp" /\ csock.err = "EHOSTUNREACH"
    /\ clRes = ClientErr("EHOSTUNREACH")
    /\ co = "done" /\ result = ResErr("EHOSTUNREACH") /\ ~timedOut

\* The four ways a probe ends.
TerminalKinds == {"Ok", "Refused", "Unreachable", "Err"}

\* C14: a probe that has ended has exactly one result, and it is Ok, Refused,
\* Unreachable or an I/O error; a probe that has not ended has none.
C14_FourTerminalStates ==
    /\ co = "done" => result.kind \in TerminalKinds
    /\ co # "done" => result = NoResult
    /\ result.kind = "Ok" <=> (result.source_addr # NoAddr)
    /\ result.kind = "Err" <=> (result.errno # "none")

\* C14 witness: a probe has ended with an I/O error of its server.
C14_Witness == co = "done" /\ result.kind = "Err" /\ svRes = ServerErr

\* The server of this probe holds, or has taken, what another sender sent.
ServerGotForeign ==
    \/ \E i \in 1..Len(rcvq) : rcvq[i].peer = ForeignAddr(path.target_addr.fam)
    \/ svRes.kind = "ReceivedCookie" /\ svRes.peer_addr = ForeignAddr(path.target_addr.fam)

C16_RefusedCancelsServer ==
    /\ clRes = ClientRefused =>
          /\ aborted
          /\ turn # "parked"
          /\ sv = "done" => svRes = ServerAborted
          /\ co = "done" => sv = "done" /\ result = ResRefused /\ ~timedOut
    /\ result = ResRefused =>
          clRes = ClientRefused /\ svRes = ServerAborted
\* C16 witness: a TCP client was refused, the server was joined as Aborted
\* and Refused was returned while the timer had not expired.
C16_Witness ==
    /\ proto = "Tcp" /\ clRes = ClientRefused /\ svRes = ServerAborted
    /\ co = "done" /\ result = ResRefused /\ ~deadline

ClientOutcomes == {"SentCookie", "Refused"}
ServerOutcomes == {"ReceivedCookie", "Aborted"}

\* C17 (as stated): whenever the probe has ended, the client has produced a
\* ClientOutcome (SentCookie or Refused) and the server a ServerOutcome
\* (ReceivedCookie or Aborted).
C17_OutcomesOnEveryPath ==
    co = "done" => clRes.kind \in ClientOutcomes /\ svRes.kind \in ServerOutcomes

\* C17 (amended): the client and the server each complete at most once, with
\* an outcome or an error, and what they completed with never changes.  A
\* probe that ends Ok or Refused has one ClientOutcome and one ServerOutcome.
\* A probe that ends Unreachable has no ServerOutcome and at most the
\* ClientOutcome SentCookie; a probe that ends with an error has an error
\* in place of one outcome or, after a failed bind_server, no outcome at all.
C17_OutcomesAtMostOnce ==
    /\ [](/\ clRes.kind \in ClientOutcomes \cup {"None", "Err"}
          /\ svRes.kind \in ServerOutcomes \cup {"None", "Err"}
          /\ (clRes # NoClient <=> cl = "done")
          /\ (svRes # NoServer <=> sv = "done")
          /\ result.kind \in {"Ok", "Refused"} =>
                clRes.kind \in ClientOutcomes /\ svRes.kind \in ServerOutcomes
          /\ result = ResUnreachable =>
                svRes = NoServer /\ clRes.kind \in {"None", "SentCookie"}
          /\ result.kind = "Err" =>
                \/ clRes.kind = "Err" /\ svRes = NoServer
                \/ svRes.kind = "Err" /\ clRes.kind \in {"None", "SentCookie"}
                \/ clRes = NoClient /\ svRes = NoServer /\ bindErr = result.errno)
    /\ [][/\ clRes # NoClient => clRes' = clRes
          /\ svRes # NoServer => svRes' = svRes]_vars
\* C17 witness: a UDP probe over a dropping network has ended Unreachable:
\* the client had sent its cookie, the server has produced nothing.
C17_Witness ==
    /\ proto = "Udp" /\ co = "done" /\ result = ResUnreachable
    /\ clRes.kind = "SentCookie" /\ svRes = NoServer /\ cl = "done" /\ sv # "done"

\* C18: the UDP server makes a ReceivedCookie only of a datagram that was
\* exactly 16 bytes long; once it has taken a datagram of another length,
\* shorter or longer, the probe has ended in a panic, without ReceivedCookie
\* and without an Effect.
C18_OnlySixteenBytes ==
    proto = "Udp" =>
        /\ svRes.kind = "ReceivedCookie" => recvLen = CookieLen
        /\ recvLen \notin {-1, CookieLen} =>
              /\ co = "done" /\ result.kind = "Panic"
              /\ svRes.kind # "ReceivedCookie"

\* The client's connection was established: the kernel has made it at the
\* listener, where it waits in the accept queue or has been accepted.
ClientConnectionMade ==
    \/ \E i \in 1..Len(acceptq) : acceptq[i].id = "c"
    \/ stream.id = "c"

\* C19: the TCP client draws and writes a cookie only after connect has
\* succeeded.  Before that, and when the outcome is Refused or an error of
\* connect, no cookie was drawn and nothing was written; when the outcome is
\* SentCookie the connection was established and exactly the 16 big-endian
\* bytes of the cookie drawn were written on it.
C19_CookieAfterConnect ==
    proto = "Tcp" =>
        /\ cookie # -1 => ClientConnectionMade /\ cl = "done"
        /\ clRes.kind = "Refused" => cookie = -1 /\ wire["c"] = << >>
        /\ clRes.kind # "SentCookie" => wire["c"] = << >>
        /\ clRes.kind = "SentCookie" =>
              /\ ClientConnectionMade
              /\ clRes.cookie = cookie /\ cookie \in Cookies
              /\ wire["c"] = ToBeBytes(cookie)
              /\ Len(wire["c"]) = CookieLen
\* C19 witness: a TCP client has sent a non-zero cookie; its 16 bytes are on
\* the connection the server has accepted and is about to read.
C19_Witness ==
    /\ proto = "Tcp" /\ clRes.kind = "SentCookie" /\ cookie = (CHOOSE c \in Cookies : c # 0)
    /\ wire["c"] = ToBeBytes(cookie) /\ stream.id = "c" /\ sv = "read"

\* C20: the UDP client's outcome is what the one take_error after the send
\* found: SentCookie (with the cookie sent) when no error was pending,
\* Refused when ECONNREFUSED was pending, an error when anything else was.  A
\* rejection that had reached the socket by then is never answered with
\* SentCookie; one that had not stays undelivered once the client is done,
\* the outcome stays SentCookie and the probe cannot return Refused.
C20_OneQueryDecides ==
    proto = "Udp" =>
        /\ clRes.kind = "SentCookie" =>
              csock.err = "none" /\ clRes.cookie = cookie /\ icmp # "delivered"
        /\ clRes.kind = "Refused" => csock.err = "ECONNREFUSED" /\ icmp = "delivered"
        /\ (cl = "done" /\ csock.err \notin {"none", "ECONNREFUSED"}) => clRes.kind = "Err"
        /\ (cl = "done" /\ icmp = "delivered") => clRes.kind \in {"Refused", "Err"}
        /\ (clRes.kind = "SentCookie" /\ co = "done") => result # ResRefused
\* C20 witness: over a rejecting firewall the client found no pending error
\* and produced SentCookie; the rejection is still on its way, and the probe
\* has ended Unreachable.
C20_Witness ==
    /\ proto = "Udp" /\ net = "reject" /\ icmp = "pending"
    /\ clRes.kind = "SentCookie" /\ co = "done" /\ result = ResUnreachable

\* C21: when setns fails on the worker, the closure f is not run (no socket
\* is made, in any namespace), scoped returns the error setns left, and the
\* caller returns it: bind_server's caller as the result of the probe, the
\* client as its error.  The worker never runs f outside the target
\* namespace.
C21_SetnsFailureReturned ==
    /\ wk.setns \in SetnsErrnos =>
          wk.st = "exited" /\ wk.runs = 0 /\ wk.ret = wk.setns /\ wk.sock = NoSock
    /\ wk.runs > 0 => wk.setns = "Ok" /\ wk.ns = wk.target
    /\ joined.setns \in SetnsErrnos =>
          /\ joined.runs = 0 /\ joined.ret = joined.setns /\ joined.sock = NoSock
          /\ joined.ns = callerNs
          /\ co = "done" /\ result = ResErr(joined.setns)
          /\ joined.who = "bind" => bindErr = joined.setns /\ ssock = NoSock /\ cl = "new"
          /\ joined.who = "client" => clRes = ClientErr(joined.setns) /\ csock = NoSock
\* C21 witness: setns failed with EINVAL in the client's scoped call; the
\* client, and the probe, returned EINVAL.
C21_Witness ==
    /\ joined.who = "client" /\ joined.setns = "EINVAL" /\ joined.runs = 0
    /\ clRes = ClientErr("EINVAL") /\ co = "done" /\ result = ResErr("EINVAL")

\* C22: every live OsNs keeps its descriptor open on the namespace it was
\* created for, that namespace is alive, and its path resolves to it, however
\* other OsNs values and other files are created and dropped; two live OsNs
\* values have different paths.
C22_HandlesStayValid ==
    /\ \A h \in handles :
          /\ fds[h.fd] = FdNs(h.made)
          /\ Resolve(h.fd_path) = FdNs(h.made)
          /\ NsAlive(h.made)
    /\ \A h1, h2 \in handles : h1 # h2 => h1.fd_path # h2.fd_path
    /\ entered # NoEntered => entered.ns = entered.made
\* C22 witness: two OsNs values are live, a third was dropped and its
\* descriptor number is in use again by another file.
C22_Witness ==
    /\ Cardinality(handles) = 2 /\ nsNext = MaxNs
    /\ \E n \in Fds : fds[n] = FdFile /\ \A h \in handles : h.fd > n
    /\ entered.made \in {h.made : h \in handles}

\* C23: new_net leaves the calling thread in the namespace it was in; the
\* namespace is made by the worker, which is in it from unshare on; and once
\* the worker has exited and the OsNs is returned, the namespace is a new
\* one, is kept alive by the descriptor of the OsNs alone, and a setns
\* through the OsNs enters it.
C23_NewNetOnWorker ==
    /\ mainNs = 0
    /\ nn.st \in {"unshared", "opened"} => nn.ns = nn.made /\ nn.made = nsNext /\ nn.ns # mainNs
    /\ \A h \in handles :
          /\ h.made \in 1..nsNext /\ h.made # mainNs
          /\ nn.st # "none" => nn.ns # h.made
          /\ \E n \in Fds : fds[n] = FdNs(h.made)
    /\ entered # NoEntered =>
          entered.err = "none" /\ entered.ns = entered.made /\ entered.ns # mainNs
\* C23 witness: new_net has returned an OsNs, its worker is gone, the caller
\* is in the initial namespace, and a setns through the OsNs has entered the
\* new namespace.
C23_Witness ==
    /\ nn = NoNewNet /\ mainNs = 0 /\ handles = {OsNs(1, 1)}
    /\ entered = [fd |-> 1, made |-> 1, ns |-> 1, err |-> "none"]

\* Where the two tasks can be when a poll of connect ends Pending: the client
\* in connect (TCP) or in send (UDP), the server in accept or recv_from or in
\* read_u128; each is there or is done, and not both are done.
Suspended ==
    /\ cl \in {"connecting", "send_wait", "done"}
    /\ sv \in {"new", "read", "done"}
    /\ ~(cl = "done" /\ sv = "done")

\* C24: the probe is parked, and is ended by the timer, only with its tasks
\* at accept/recv_from, read, connect or send; while a worker of Ns::scoped
\* exists the caller is inside that scoped call, the probe is not parked and
\* has not ended, so the timer has not ended it.
C24_SuspendedOnlyAtAwaits ==
    /\ turn = "parked" => Suspended /\ wk = NoWorker /\ co = "running"
    /\ timedOut => Suspended /\ wk = NoWorker /\ co = "done" /\ result = ResUnreachable
    /\ wk # NoWorker =>
          /\ CallerInScoped
          /\ turn # "parked" /\ co # "done" /\ result = NoResult /\ ~timedOut
\* C24 witness: the 2 s have passed while the worker of the client's scoped
\* call hangs: the probe has not ended.
C24_Witness ==
    /\ timed /\ deadline /\ wk.st = "hung" /\ wk.who = "client"
    /\ co = "running" /\ result = NoResult

\* Every value the client and the server future can complete with.
ClientValues ==
    {SentCookie(c) : c \in Cookies} \cup {ClientRefused}
ServerValues ==
    {ReceivedCookie(c, a) : c \in Cookies, a \in {path.source_addr, path.target_addr}}
        \cup {ServerAborted}

\* C25: the match on the joined pair gives Unreachable for no pair, so
\* Unreachable is returned only by the timer of connect_with_timeout after
\* the deadline; connect called without it never returns Unreachable, and
\* has not returned while the client has produced SentCookie and the server
\* has produced nothing.
C25_UnreachableOnlyByTimer ==
    /\ \A c \in ClientValues, s \in ServerValues : ConnectMatch(c, s) # ResUnreachable
    /\ result = ResUnreachable => timed /\ deadline /\ timedOut
    /\ ~timed => ~timedOut /\ result # ResUnreachable
    /\ (~timed /\ clRes.kind = "SentCookie" /\ svRes = NoServer) =>
          co = "running" /\ result = NoResult
\* C25 witness: connect alone, over a dropping network: the UDP client has
\* sent its cookie, the server waits in recv_from, and the coordinator is
\* parked with nothing left that could wake it.
C25_Witness ==
    /\ ~timed /\ proto = "Udp" /\ net = "drop"
    /\ clRes.kind = "SentCookie" /\ svRes = NoServer /\ sv = "new"
    /\ co = "running" /\ turn = "parked" /\ inflight = NoDgram /\ rcvq = << >>

\* C26: random_peer_addr_with_net can return for whatever address with
\* prefix it was called with, a network of a single address included: while
\* its loop runs, some draw gives a candidate that is returned.
C26_PeerLoopCanReturn ==
    ppc = "loop" => \E r \in Draws(pin.fam) : PeerAccepted(pin, PeerCandidate(pin, r))

\* C27: what random_peer_addr_with_net returns, and so the address the peer
\* end of the interface is given, has the argument's family and prefix
\* length, lies in the argument's network, and is not the argument's
\* address; the assertion on the network never fails.
C27_PeerInNetNotSelf ==
    /\ ppc # "panic"
    /\ pret # NoNet =>
          /\ pret.fam = pin.fam /\ pret.len = pin.len
          /\ pret.addr \in Draws(pin.fam)
          /\ Network(pret) = Network(pin)
          /\ pret.addr # pin.addr
    /\ peerIf # NoNet => peerIf = pret /\ peerIf.addr # pin.addr
    /\ ppc \in {"returned", "set"} <=> pret # NoNet
\* C27 witness: called with address 5 in a network of four addresses, the
\* function returned the network's first address, and the peer end has it.
C27_Witness ==
    /\ pin = IpNet("v4", 5, V4Bits - 2) /\ pret = IpNet("v4", 4, V4Bits - 2)
    /\ ppc = "set" /\ peerIf = pret /\ ptries > 0
====
